---- MODULE Spec2Model ----
(***************************************************************************)
(* Model of src/bot.py: a script that wraps ETH into WETH and unwraps it   *)
(* again until 90 transactions are confirmed, saving its three counters    *)
(* to transaction_status.json after every confirmed transaction.           *)
(*                                                                         *)
(* One action per step of the script that touches the outside world (an    *)
(* RPC call, a file operation, a sleep); the statements between two such   *)
(* steps belong to the action that follows the earlier one.  The chain     *)
(* client is the environment: every RPC call either answers or raises.     *)
(* Kill is the operating system ending the process; Start runs the script  *)
(* again with whatever the file holds.                                     *)
(***************************************************************************)
EXTENDS Integers, FiniteSets, Sequences, TLC

VARIABLES
    pc,              \* position of the script (a label named after the line's statement)
    exc,             \* the unhandled exception that ended the process, or "none"
    wrap_counter,    \* bot.py:183 module globals
    unwrap_counter,
    total_tx,
    file,            \* content of transaction_status.json
    kind,            \* attempt in progress: "wrap" (line 187), "unwrap" (line 194), "none"
    tx,              \* what the attempt in progress has done with the chain client
    receipt,         \* the chain's receipt for the transaction of this attempt
    elapsed,         \* time.time() - start_time inside wait_for_confirmation
    missed,          \* a receipt query raised while the receipt was there
    result,          \* how the attempt in progress ended, "none" while it runs
    refused,         \* kinds the balance check turned down and not attempted again since
    gate_check       \* one call of has_sufficient_balance: what the chain answers and what it returns

vars == <<pc, exc, wrap_counter, unwrap_counter, total_tx, file, kind, tx,
          receipt, elapsed, missed, result, refused, gate_check>>

(***************************************************************************)
(* Program constants.                                                      *)
(***************************************************************************)
WrapCap == 45
UnwrapCap == 45
Quota == 90
Timeout == 300
PollInterval == 30

(***************************************************************************)
(* Wei amounts.  0.4 ether is 4 * 10^17 wei, beyond TLC's 32-bit integers, *)
(* so a wei amount is the pair of its gwei part and the remaining wei.     *)
(***************************************************************************)
Wei(g, w) == [gwei |-> g, wei |-> w]

WeiGeq(a, b) == \/ a.gwei > b.gwei
                \/ a.gwei = b.gwei /\ a.wei >= b.wei

WeiAdd(a, b) == [gwei |-> a.gwei + b.gwei + ((a.wei + b.wei) \div 1000000000),
                 wei  |-> (a.wei + b.wei) % 1000000000]

WeiPred(a) == IF a.wei > 0 THEN Wei(a.gwei, a.wei - 1) ELSE Wei(a.gwei - 1, 999999999)

\* web3.to_wei(0.4, 'ether')
amount_in_wei == Wei(400000000, 0)

\* web3.to_wei(0.025, 'gwei') = 25000000 wei
max_priority_fee_per_gas == Wei(0, 25000000)

\* max_priority_fee_per_gas * gas_estimate: 40 units of gas cost one gwei
MulFee(gas_estimate) ==
    Wei(gas_estimate \div (1000000000 \div max_priority_fee_per_gas.wei),
        (gas_estimate % (1000000000 \div max_priority_fee_per_gas.wei))
            * max_priority_fee_per_gas.wei)

(***************************************************************************)
(* Answers of the chain client, drawn from small sets.                     *)
(***************************************************************************)
MaxGasUnits == 2

\* answers of estimate_gas
GasEstimates == {21000 * k : k \in 1..MaxGasUnits}

\* balances around the amounts the code compares them with
Balances ==
    {Wei(0, 0), amount_in_wei, WeiPred(amount_in_wei)}
    \cup {MulFee(g) : g \in GasEstimates}
    \cup {WeiPred(MulFee(g)) : g \in GasEstimates}
    \cup {WeiAdd(amount_in_wei, MulFee(g)) : g \in GasEstimates}

\* an RPC call that raised
RpcError == [ok |-> FALSE, value |-> Wei(0, 0), gas |-> 0]

GasAnswers == {RpcError} \cup {[ok |-> TRUE, value |-> Wei(0, 0), gas |-> g] : g \in GasEstimates}

BalanceAnswers == {RpcError} \cup {[ok |-> TRUE, value |-> b, gas |-> 0] : b \in Balances}

\* mutant: the wrap branch also reserves the amount that is wrapped
has_sufficient_balance_reserving_amount(is_wrap, gas_answer, eth_answer, weth_answer) ==
    IF ~gas_answer.ok
    THEN FALSE
    ELSE IF is_wrap
         THEN eth_answer.ok /\ WeiGeq(eth_answer.value,
                                      WeiAdd(amount_in_wei, MulFee(gas_answer.gas)))
         ELSE weth_answer.ok /\ WeiGeq(weth_answer.value, amount_in_wei)

\* mutant: the unwrap branch also asks for the fee in the native balance
has_sufficient_balance_unwrap_fee(is_wrap, gas_answer, eth_answer, weth_answer) ==
    IF ~gas_answer.ok
    THEN FALSE
    ELSE IF is_wrap
         THEN eth_answer.ok /\ WeiGeq(eth_answer.value, MulFee(gas_answer.gas))
         ELSE /\ weth_answer.ok /\ WeiGeq(weth_answer.value, amount_in_wei)
              /\ eth_answer.ok /\ WeiGeq(eth_answer.value, MulFee(gas_answer.gas))

(***************************************************************************)
(* has_sufficient_balance (bot.py:85-98).  Every exception inside the try  *)
(* is caught and answered with False.                                      *)
(***************************************************************************)
has_sufficient_balance(is_wrap, gas_answer, eth_answer, weth_answer) ==
    IF ~gas_answer.ok
    THEN FALSE
    ELSE IF is_wrap
         THEN eth_answer.ok /\ WeiGeq(eth_answer.value, MulFee(gas_answer.gas))
         ELSE weth_answer.ok /\ WeiGeq(weth_answer.value, amount_in_wei)

\* a call of has_sufficient_balance: the kind asked about, the answers the
\* chain gives to estimate_gas, get_balance and balanceOf, and what is returned
GateChecks ==
    [phase : {"idle", "called", "returned"}, is_wrap : BOOLEAN,
     gas_answer : GasAnswers, eth_answer : BalanceAnswers,
     weth_answer : BalanceAnswers, answer : BOOLEAN]

NoCheck ==
    [phase |-> "idle", is_wrap |-> TRUE, gas_answer |-> RpcError,
     eth_answer |-> RpcError, weth_answer |-> RpcError, answer |-> FALSE]

(***************************************************************************)
(* transaction_status.json                                                 *)
(***************************************************************************)
FileOf(k, w, u, t) == [content |-> k, wrap_counter |-> w, unwrap_counter |-> u, total_tx |-> t]

Absent == FileOf("absent", 0, 0, 0)

\* open(..., 'w') has truncated the file and json.dump's text is not flushed yet
Empty == FileOf("empty", 0, 0, 0)

\* save_transaction_status's record (bot.py:167-171)
Status(w, u, t) == FileOf("record", w, u, t)

\* json.load raises JSONDecodeError on these
NotJson == {"empty", "truncated", "garbage"}

\* valid JSON on which status['wrap_counter'] raises KeyError or TypeError
NoCounters == {"missing_field", "not_a_record"}

\* mutant: the file is not read and every process starts from zero
load_ignoring_file(f) ==
    [raised |-> "none", wrap_counter |-> 0, unwrap_counter |-> 0, total_tx |-> 0]

\* mutant: total_tx is not read back from the record
load_forgetting_total(f) ==
    IF f.content = "record"
    THEN [raised |-> "none", wrap_counter |-> f.wrap_counter,
          unwrap_counter |-> f.unwrap_counter, total_tx |-> 0]
    ELSE IF f.content = "absent" \/ f.content \in NotJson
    THEN [raised |-> "none", wrap_counter |-> 0, unwrap_counter |-> 0, total_tx |-> 0]
    ELSE [raised |-> IF f.content = "missing_field" THEN "KeyError" ELSE "TypeError",
          wrap_counter |-> 0, unwrap_counter |-> 0, total_tx |-> 0]

\* load_transaction_status (bot.py:175-181): the three counters, or the
\* exception that escapes it
load_transaction_status(f) ==
    IF f.content = "record"
    THEN [raised |-> "none", wrap_counter |-> f.wrap_counter,
          unwrap_counter |-> f.unwrap_counter, total_tx |-> f.total_tx]
    ELSE IF f.content = "absent" \/ f.content \in NotJson
    THEN [raised |-> "none", wrap_counter |-> 0, unwrap_counter |-> 0, total_tx |-> 0]
    ELSE [raised |-> IF f.content = "missing_field" THEN "KeyError" ELSE "TypeError",
          wrap_counter |-> 0, unwrap_counter |-> 0, total_tx |-> 0]

(***************************************************************************)
(* The process.                                                            *)
(***************************************************************************)
Stopped == {"boot", "done", "crashed", "killed"}

Watching == {"wait_test", "wait_poll", "wait_sleep"}

NoTx == [nonce |-> FALSE, signed |-> FALSE, sent |-> FALSE]

\* arrival places the moment the receipt appeared among the watcher's polls:
\* "polled" a poll was still to come, "unpolled" after the last poll but before
\* the timeout, "late" at or after the timeout
NoReceipt == [found |-> FALSE, status |-> 0, arrival |-> "late"]


Kinds == {"wrap", "unwrap"}

\* an exception nobody catches ends the process
Raise(e) ==
    /\ pc' = "crashed"
    /\ exc' = e

\* mutant: the unwrap branch is an elif of the wrap branch
AfterAttemptElse(k) == "end_if"

\* where the main loop goes on once the attempt of kind k is dealt with
AfterAttempt(k) == IF k = "wrap" THEN "unwrap_if" ELSE "end_if"

TypeOK ==
    /\ pc \in Stopped \cup Watching \cup
          {"loaded", "loop", "wrap_if", "unwrap_if", "gate", "nonce", "estimate", "sign", "send",
           "ret", "save_open", "save_write", "end_if", "remove", "sleep"}
    /\ exc \in {"none", "KeyError", "TypeError", "RpcError", "SignError"}
    /\ wrap_counter \in Nat /\ unwrap_counter \in Nat /\ total_tx \in Nat
    /\ file.content \in {"absent", "record"} \cup NotJson \cup NoCounters
    /\ kind \in Kinds \cup {"none"}
    /\ tx \in [nonce : BOOLEAN, signed : BOOLEAN, sent : BOOLEAN]
    /\ receipt \in [found : BOOLEAN, status : {0, 1}, arrival : {"polled", "unpolled", "late"}]
    /\ elapsed \in 0..Timeout
    /\ missed \in BOOLEAN
    /\ result \in {"none", "refused", "submit_error", "Confirmed", "Reverted", "TimedOut"}
    /\ refused \subseteq Kinds
    /\ gate_check \in GateChecks

\* the script has not run yet and there is no status file
Init ==
    /\ pc = "boot"
    /\ exc = "none"
    /\ wrap_counter = 0
    /\ unwrap_counter = 0
    /\ total_tx = 0
    /\ file = Absent
    /\ kind = "none"
    /\ tx = NoTx
    /\ receipt = NoReceipt
    /\ elapsed = 0
    /\ missed = FALSE
    /\ result = "none"
    /\ refused = {}
    /\ gate_check = NoCheck

\* bot.py:183, run by a fresh process: nothing of an earlier process is left
Start ==
    /\ pc \in Stopped
    /\ LET loaded == load_transaction_status(file) IN
         /\ wrap_counter' = loaded.wrap_counter
         /\ unwrap_counter' = loaded.unwrap_counter
         /\ total_tx' = loaded.total_tx
         /\ IF loaded.raised = "none"
            THEN pc' = "loaded" /\ exc' = "none"
            ELSE Raise(loaded.raised)
    /\ kind' = "none"
    /\ tx' = NoTx
    /\ receipt' = NoReceipt
    /\ elapsed' = 0
    /\ missed' = FALSE
    /\ result' = "none"
    /\ refused' = {}
    /\ UNCHANGED file
    /\ UNCHANGED gate_check

\* bot.py:185 while total_tx < 90, first reached from line 183 ("loaded") and
\* then from the sleep of line 206 ("loop")
LoopTest ==
    /\ pc \in {"loaded", "loop"}
    /\ pc' = IF total_tx < Quota THEN "wrap_if" ELSE "done"
    /\ UNCHANGED <<exc, wrap_counter, unwrap_counter, total_tx, file, kind, tx,
                   receipt, elapsed, missed, result, refused>>
    /\ UNCHANGED gate_check

\* mutant: the wrap branch forgets its own cap
WrapEligibleWithoutCap == total_tx < Quota

\* bot.py:186 if wrap_counter < 45 and total_tx < 90
WrapEligible == wrap_counter < WrapCap /\ total_tx < Quota

\* mutant: only what has been wrapped is unwrapped
UnwrapEligibleAfterWrap ==
    unwrap_counter < UnwrapCap /\ total_tx < Quota /\ unwrap_counter < wrap_counter

\* bot.py:193 if unwrap_counter < 45 and total_tx < 90
UnwrapEligible == unwrap_counter < UnwrapCap /\ total_tx < Quota

\* bot.py:186-187 the test and the call of wrap_eth_to_weth
WrapIf ==
    /\ pc = "wrap_if"
    /\ IF WrapEligible
       THEN pc' = "gate" /\ kind' = "wrap" /\ refused' = refused \ {"wrap"}
       ELSE pc' = "unwrap_if" /\ UNCHANGED <<kind, refused>>
    /\ UNCHANGED <<exc, wrap_counter, unwrap_counter, total_tx, file, tx,
                   receipt, elapsed, missed, result>>
    /\ UNCHANGED gate_check

\* bot.py:193-194 the test and the call of unwrap_weth_to_eth
UnwrapIf ==
    /\ pc = "unwrap_if"
    /\ IF UnwrapEligible
       THEN pc' = "gate" /\ kind' = "unwrap" /\ refused' = refused \ {"unwrap"}
       ELSE pc' = "end_if" /\ UNCHANGED <<kind, refused>>
    /\ UNCHANGED <<exc, wrap_counter, unwrap_counter, total_tx, file, tx,
                   receipt, elapsed, missed, result>>
    /\ UNCHANGED gate_check

\* mutant: the nonce is fetched before the balance is checked
GateAfterNonce ==
    /\ pc = "gate"
    /\ \E gas_answer \in GasAnswers, eth_answer \in BalanceAnswers, weth_answer \in BalanceAnswers :
         IF has_sufficient_balance(kind = "wrap", gas_answer, eth_answer, weth_answer)
         THEN pc' = "nonce" /\ UNCHANGED result
         ELSE pc' = "ret" /\ result' = "refused"
    /\ tx' = [tx EXCEPT !.nonce = TRUE]
    /\ UNCHANGED <<exc, wrap_counter, unwrap_counter, total_tx, file, kind,
                   receipt, elapsed, missed, refused>>
    /\ UNCHANGED gate_check

\* bot.py:118-120 and 143-145: the balance check and the early return
Gate ==
    /\ pc = "gate"
    /\ \E gas_answer \in GasAnswers, eth_answer \in BalanceAnswers, weth_answer \in BalanceAnswers :
         IF has_sufficient_balance(kind = "wrap", gas_answer, eth_answer, weth_answer)
         THEN pc' = "nonce" /\ UNCHANGED result
         ELSE pc' = "ret" /\ result' = "refused"
    /\ UNCHANGED <<exc, wrap_counter, unwrap_counter, total_tx, file, kind, tx,
                   receipt, elapsed, missed, refused>>
    /\ UNCHANGED gate_check

\* bot.py:121 and 146: get_next_nonce(), outside any try
Nonce ==
    /\ pc = "nonce"
    /\ \/ pc' = "estimate" /\ tx' = [tx EXCEPT !.nonce = TRUE] /\ UNCHANGED exc
       \/ Raise("RpcError") /\ UNCHANGED tx
    /\ UNCHANGED <<wrap_counter, unwrap_counter, total_tx, file, kind,
                   receipt, elapsed, missed, result, refused>>
    /\ UNCHANGED gate_check

\* bot.py:122 and 147: estimate_gas for the payload, outside any try
Estimate ==
    /\ pc = "estimate"
    /\ \/ pc' = "sign" /\ UNCHANGED exc
       \/ Raise("RpcError")
    /\ UNCHANGED <<wrap_counter, unwrap_counter, total_tx, file, kind, tx,
                   receipt, elapsed, missed, result, refused>>
    /\ UNCHANGED gate_check

\* bot.py:123-133 and 148-157: the payload and sign_transaction, outside any try
Sign ==
    /\ pc = "sign"
    /\ \/ pc' = "send" /\ tx' = [tx EXCEPT !.signed = TRUE] /\ UNCHANGED exc
       \/ Raise("SignError") /\ UNCHANGED tx
    /\ UNCHANGED <<wrap_counter, unwrap_counter, total_tx, file, kind,
                   receipt, elapsed, missed, result, refused>>
    /\ UNCHANGED gate_check

\* bot.py:134-140 and 158-164: send_raw_transaction inside the try; on success
\* wait_for_confirmation starts its clock (bot.py:101)
Send ==
    /\ pc = "send"
    /\ \/ /\ pc' = "wait_test"
          /\ tx' = [tx EXCEPT !.sent = TRUE]
          /\ elapsed' = 0
          /\ UNCHANGED result
       \/ /\ pc' = "ret"
          /\ result' = "submit_error"
          /\ UNCHANGED <<tx, elapsed>>
    /\ UNCHANGED <<exc, wrap_counter, unwrap_counter, total_tx, file, kind,
                   receipt, missed, refused>>
    /\ UNCHANGED gate_check

\* the last poll is the one made at the largest multiple of the interval
\* below the timeout (bot.py:102, 113)
LastPoll == ((Timeout - 1) \div PollInterval) * PollInterval

\* where the present moment lies among the polls of the watcher
Arrival ==
    IF pc \notin Watching \/ elapsed >= Timeout THEN "late"
    ELSE IF elapsed < LastPoll \/ pc \in {"wait_test", "wait_poll"} THEN "polled"
    ELSE "unpolled"

\* the chain includes the broadcast transaction: it succeeds or reverts
Mine ==
    /\ tx.sent
    /\ ~receipt.found
    /\ pc \in Watching \cup {"ret"}
    /\ \E status \in {0, 1} :
         receipt' = [found |-> TRUE, status |-> status, arrival |-> Arrival]
    /\ UNCHANGED <<pc, exc, wrap_counter, unwrap_counter, total_tx, file, kind, tx,
                   elapsed, missed, result, refused>>
    /\ UNCHANGED gate_check

\* mutant: the loop gives up one interval early
WaitTestOnePollShort ==
    /\ pc = "wait_test"
    /\ IF elapsed < Timeout - PollInterval
       THEN pc' = "wait_poll" /\ UNCHANGED result
       ELSE pc' = "ret" /\ result' = "TimedOut"
    /\ UNCHANGED <<exc, wrap_counter, unwrap_counter, total_tx, file, kind, tx,
                   receipt, elapsed, missed, refused>>
    /\ UNCHANGED gate_check

\* mutant: a transaction that was sent is taken as confirmed at the timeout
WaitTestConfirmsOnTimeout ==
    /\ pc = "wait_test"
    /\ IF elapsed < Timeout
       THEN pc' = "wait_poll" /\ UNCHANGED result
       ELSE pc' = "ret" /\ result' = "Confirmed"
    /\ UNCHANGED <<exc, wrap_counter, unwrap_counter, total_tx, file, kind, tx,
                   receipt, elapsed, missed, refused>>
    /\ UNCHANGED gate_check

\* bot.py:102 while time.time() - start_time < timeout, and 114-115 after the loop
WaitTest ==
    /\ pc = "wait_test"
    /\ IF elapsed < Timeout
       THEN pc' = "wait_poll" /\ UNCHANGED result
       ELSE pc' = "ret" /\ result' = "TimedOut"
    /\ UNCHANGED <<exc, wrap_counter, unwrap_counter, total_tx, file, kind, tx,
                   receipt, elapsed, missed, refused>>
    /\ UNCHANGED gate_check

\* mutant: any receipt counts as success (if receipt: return True)
WaitPollIgnoringStatus ==
    /\ pc = "wait_poll"
    /\ \/ /\ receipt.found
          /\ pc' = "ret" /\ result' = "Confirmed" /\ UNCHANGED missed
       \/ /\ ~receipt.found
          /\ pc' = "wait_sleep" /\ UNCHANGED <<result, missed>>
       \/ /\ pc' = "wait_sleep" /\ missed' = (missed \/ receipt.found)
          /\ UNCHANGED result
    /\ UNCHANGED <<exc, wrap_counter, unwrap_counter, total_tx, file, kind, tx,
                   receipt, elapsed, refused>>
    /\ UNCHANGED gate_check

\* bot.py:103-112 one get_transaction_receipt; the bare except swallows a failed
\* query and a receipt that is not there yet alike
WaitPoll ==
    /\ pc = "wait_poll"
    /\ \/ /\ receipt.found /\ receipt.status = 1
          /\ pc' = "ret" /\ result' = "Confirmed" /\ UNCHANGED missed
       \/ /\ receipt.found /\ receipt.status = 0
          /\ pc' = "ret" /\ result' = "Reverted" /\ UNCHANGED missed
       \/ /\ ~receipt.found
          /\ pc' = "wait_sleep" /\ UNCHANGED <<result, missed>>
       \/ /\ pc' = "wait_sleep" /\ missed' = (missed \/ receipt.found)
          /\ UNCHANGED result
    /\ UNCHANGED <<exc, wrap_counter, unwrap_counter, total_tx, file, kind, tx,
                   receipt, elapsed, refused>>
    /\ UNCHANGED gate_check

\* bot.py:113 time.sleep(30)
WaitSleep ==
    /\ pc = "wait_sleep"
    /\ pc' = "wait_test"
    /\ elapsed' = elapsed + PollInterval
    /\ UNCHANGED <<exc, wrap_counter, unwrap_counter, total_tx, file, kind, tx,
                   receipt, missed, result, refused>>
    /\ UNCHANGED gate_check

\* mutant: a confirmed attempt is not counted
IncrementNothing(k) ==
    /\ wrap_counter' = wrap_counter
    /\ unwrap_counter' = unwrap_counter
    /\ total_tx' = total_tx

\* mutant: the counter of the kind is raised and total_tx is forgotten
IncrementWithoutTotal(k) ==
    /\ wrap_counter' = IF k = "wrap" THEN wrap_counter + 1 ELSE wrap_counter
    /\ unwrap_counter' = IF k = "unwrap" THEN unwrap_counter + 1 ELSE unwrap_counter
    /\ total_tx' = total_tx

\* bot.py:188-189 and 195-196
Increment(k) ==
    /\ wrap_counter' = IF k = "wrap" THEN wrap_counter + 1 ELSE wrap_counter
    /\ unwrap_counter' = IF k = "unwrap" THEN unwrap_counter + 1 ELSE unwrap_counter
    /\ total_tx' = total_tx + 1

\* mutant: a transaction that was sent is counted although it timed out
RetCountsTimedOut ==
    /\ pc = "ret"
    /\ IF result \in {"Confirmed", "TimedOut"}
       THEN /\ Increment(kind)
            /\ pc' = "save_open"
            /\ UNCHANGED <<kind, refused>>
       ELSE /\ pc' = AfterAttempt(kind)
            /\ kind' = "none"
            /\ refused' = IF result = "refused" THEN refused \cup {kind} ELSE refused
            /\ UNCHANGED <<wrap_counter, unwrap_counter, total_tx>>
    /\ tx' = NoTx
    /\ receipt' = NoReceipt
    /\ elapsed' = 0
    /\ missed' = FALSE
    /\ result' = "none"
    /\ UNCHANGED <<exc, file>>
    /\ UNCHANGED gate_check

\* bot.py:187-190 and 194-197: the if on what the attempt returned
Ret ==
    /\ pc = "ret"
    /\ IF result = "Confirmed"
       THEN /\ Increment(kind)
            /\ pc' = "save_open"
            /\ UNCHANGED <<kind, refused>>
       ELSE /\ pc' = AfterAttempt(kind)
            /\ kind' = "none"
            /\ refused' = IF result = "refused" THEN refused \cup {kind} ELSE refused
            /\ UNCHANGED <<wrap_counter, unwrap_counter, total_tx>>
    /\ tx' = NoTx
    /\ receipt' = NoReceipt
    /\ elapsed' = 0
    /\ missed' = FALSE
    /\ result' = "none"
    /\ UNCHANGED <<exc, file>>
    /\ UNCHANGED gate_check

\* bot.py:172 open('transaction_status.json', 'w') truncates the file
SaveOpen ==
    /\ pc = "save_open"
    /\ pc' = "save_write"
    /\ file' = Empty
    /\ UNCHANGED <<exc, wrap_counter, unwrap_counter, total_tx, kind, tx,
                   receipt, elapsed, missed, result, refused>>
    /\ UNCHANGED gate_check

\* bot.py:173 json.dump and the close that flushes it
SaveWrite ==
    /\ pc = "save_write"
    /\ pc' = AfterAttempt(kind)
    /\ file' = Status(wrap_counter, unwrap_counter, total_tx)
    /\ kind' = "none"
    /\ UNCHANGED <<exc, wrap_counter, unwrap_counter, total_tx, tx,
                   receipt, elapsed, missed, result, refused>>
    /\ UNCHANGED gate_check

\* bot.py:200 if total_tx >= 90
EndIf ==
    /\ pc = "end_if"
    /\ pc' = IF total_tx >= Quota THEN "remove" ELSE "sleep"
    /\ UNCHANGED <<exc, wrap_counter, unwrap_counter, total_tx, file, kind, tx,
                   receipt, elapsed, missed, result, refused>>
    /\ UNCHANGED gate_check

\* bot.py:201-204 remove the file if it exists, then break
Remove ==
    /\ pc = "remove"
    /\ pc' = "done"
    /\ file' = Absent
    /\ UNCHANGED <<exc, wrap_counter, unwrap_counter, total_tx, kind, tx,
                   receipt, elapsed, missed, result, refused>>
    /\ UNCHANGED gate_check

\* bot.py:206 time.sleep(10)
Sleep ==
    /\ pc = "sleep"
    /\ pc' = "loop"
    /\ UNCHANGED <<exc, wrap_counter, unwrap_counter, total_tx, file, kind, tx,
                   receipt, elapsed, missed, result, refused>>
    /\ UNCHANGED gate_check

\* the process is ended from outside; only the file survives
Kill ==
    /\ pc \notin Stopped
    /\ pc' = "killed"
    /\ exc' = "none"
    /\ wrap_counter' = 0
    /\ unwrap_counter' = 0
    /\ total_tx' = 0
    /\ kind' = "none"
    /\ tx' = NoTx
    /\ receipt' = NoReceipt
    /\ elapsed' = 0
    /\ missed' = FALSE
    /\ result' = "none"
    /\ refused' = {}
    /\ UNCHANGED file
    /\ UNCHANGED gate_check

\* bot.py:100-115
wait_for_confirmation == WaitTest \/ WaitPoll \/ WaitSleep

\* bot.py:117-140 and 142-164
Attempt == Gate \/ Nonce \/ Estimate \/ Sign \/ Send \/ wait_for_confirmation

\* bot.py:166-173
save_transaction_status == SaveOpen \/ SaveWrite

\* bot.py:185-206
MainLoop == LoopTest \/ WrapIf \/ UnwrapIf \/ Ret \/ EndIf \/ Remove \/ Sleep

Program == Start \/ MainLoop \/ Attempt \/ save_transaction_status

Next == Program \/ Mine \/ Kill

Spec == Init /\ [][Next]_vars

(***************************************************************************)
(* The script started on any status file: the file is an input of          *)
(* load_transaction_status, and somebody else may have written it.         *)
(***************************************************************************)
StatusFiles ==
    {Absent}
    \cup {FileOf(k, 0, 0, 0) : k \in NotJson \cup NoCounters}
    \cup {Status(w, u, w + u) : w \in 0..WrapCap, u \in 0..UnwrapCap}

InitLoad ==
    /\ pc = "boot"
    /\ exc = "none"
    /\ wrap_counter = 0
    /\ unwrap_counter = 0
    /\ total_tx = 0
    /\ file \in StatusFiles
    /\ kind = "none"
    /\ tx = NoTx
    /\ receipt = NoReceipt
    /\ elapsed = 0
    /\ missed = FALSE
    /\ result = "none"
    /\ refused = {}
    /\ gate_check = NoCheck

SpecLoad == InitLoad /\ [][Next]_vars

(***************************************************************************)
(* The script left to run: nobody kills the process, and the interpreter   *)
(* executes the next statement of the single thread as long as there is    *)
(* one.  A process that an exception ended may be started again, which     *)
(* resumes from the record it left.                                        *)
(***************************************************************************)
Run == MainLoop \/ Attempt \/ save_transaction_status

NextRun == Program \/ Mine

FairSpec == Init /\ [][NextRun]_vars /\ WF_vars(Run)

(***************************************************************************)
(* has_sufficient_balance on its own: one call for every kind and every    *)
(* combination of answers of the chain.                                    *)
(***************************************************************************)
InitGate ==
    /\ pc = "boot"
    /\ exc = "none"
    /\ wrap_counter = 0
    /\ unwrap_counter = 0
    /\ total_tx = 0
    /\ file = Absent
    /\ kind = "none"
    /\ tx = NoTx
    /\ receipt = NoReceipt
    /\ elapsed = 0
    /\ missed = FALSE
    /\ result = "none"
    /\ refused = {}
    /\ gate_check \in {c \in GateChecks : c.phase = "called" /\ ~c.answer}

\* bot.py:85-98 the call returns
CheckBalance ==
    /\ gate_check.phase = "called"
    /\ gate_check' = [gate_check EXCEPT
          !.phase = "returned",
          !.answer = has_sufficient_balance(gate_check.is_wrap, gate_check.gas_answer,
                                            gate_check.eth_answer, gate_check.weth_answer)]
    /\ UNCHANGED <<pc, exc, wrap_counter, unwrap_counter, total_tx, file, kind, tx,
                   receipt, elapsed, missed, result, refused>>

NextGate == CheckBalance

SpecGate == InitGate /\ [][NextGate]_vars

(***************************************************************************)
(* Properties.                                                             *)
(***************************************************************************)
counters == <<wrap_counter, unwrap_counter, total_tx>>

\* a step of the running script: not the start of a process, not its killing
ScriptStep == pc \notin Stopped /\ pc' # "killed"

\* C1: total_tx is the sum of wrap_counter and unwrap_counter, in memory
\* and in every record the status file holds, whatever the attempts' outcomes.
C1_TotalIsSum ==
    /\ total_tx = wrap_counter + unwrap_counter
    /\ file.content = "record" => file.total_tx = file.wrap_counter + file.unwrap_counter

\* counters of both kinds are saved, after attempts that failed in between
C1_Witness ==
    /\ file = Status(2, 1, 3)
    /\ counters = <<2, 1, 3>>
    /\ pc = "sleep"

\* C2: wrap_counter <= 45, unwrap_counter <= 45 and total_tx <= 90, in memory,
\* in every saved record, and in a process started from a saved record.
C2_Caps ==
    /\ wrap_counter <= WrapCap /\ unwrap_counter <= UnwrapCap /\ total_tx <= Quota
    /\ file.content = "record" =>
         /\ file.wrap_counter <= WrapCap
         /\ file.unwrap_counter <= UnwrapCap
         /\ file.total_tx <= Quota

\* a process started from the record of the full quota
C2_Witness ==
    /\ pc = "loaded"
    /\ file = Status(WrapCap, UnwrapCap, Quota)
    /\ counters = <<WrapCap, UnwrapCap, Quota>>

\* C3: a Confirmed attempt raises the counter of its kind and total_tx by one
\* and the script's next two steps save exactly these counters; the counters
\* change at no other step of the script and the file is written nowhere else.
C3_CountedOnce ==
    [][ScriptStep =>
          /\ (pc = "ret" /\ result = "Confirmed") =>
               /\ pc' = "save_open"
               /\ total_tx' = total_tx + 1
               /\ wrap_counter' = wrap_counter + (IF kind = "wrap" THEN 1 ELSE 0)
               /\ unwrap_counter' = unwrap_counter + (IF kind = "unwrap" THEN 1 ELSE 0)
          /\ counters' # counters => pc = "ret" /\ result = "Confirmed"
          /\ pc = "save_open" => pc' = "save_write" /\ file' = Empty
          /\ pc = "save_write" => file' = Status(wrap_counter, unwrap_counter, total_tx)
          /\ pc' = "save_open" => pc = "ret" /\ result = "Confirmed"
          /\ file' # file => pc \in {"save_open", "save_write", "remove"}
    ]_vars

\* an unwrap was confirmed and counted and its record is being written
C3_Witness ==
    /\ pc = "save_write"
    /\ kind = "unwrap"
    /\ counters = <<1, 1, 2>>
    /\ file = Empty

\* C4 (as claimed): the script stops only with total_tx = 90, whatever the
\* chain client answers, and once total_tx is 90 it is on its way out of the
\* loop within the same cycle.
C4_RunsUntilQuota ==
    /\ pc \in {"done", "crashed"} => total_tx = Quota
    /\ total_tx = Quota =>
         pc \in {"loaded", "save_open", "save_write", "unwrap_if", "end_if", "remove", "done"}

\* C5 (as claimed): whenever the script has ended with the quota reached, also
\* in a process started after an interruption, the status file does not exist.
C5_DoneMeansDeleted ==
    pc = "done" => file.content = "absent"

\* C6: a process started on a record {w, u, t} with t < 90 begins with exactly
\* these counters and leaves the file alone; from then on each counter moves
\* only by one, at a Confirmed attempt of its kind, and the script ends only at
\* {45, 45, 90}: 45-w confirmed wraps and 45-u confirmed unwraps later.
C6_Resume ==
    [][/\ (pc \in Stopped /\ file.content = "record" /\ file.total_tx < Quota) =>
            /\ pc' = "loaded"
            /\ counters' = <<file.wrap_counter, file.unwrap_counter, file.total_tx>>
            /\ file' = file
       /\ ScriptStep =>
            /\ \/ wrap_counter' = wrap_counter
               \/ /\ wrap_counter' = wrap_counter + 1
                  /\ pc = "ret" /\ result = "Confirmed" /\ kind = "wrap"
            /\ \/ unwrap_counter' = unwrap_counter
               \/ /\ unwrap_counter' = unwrap_counter + 1
                  /\ pc = "ret" /\ result = "Confirmed" /\ kind = "unwrap"
       /\ pc' = "done" => counters' = <<WrapCap, UnwrapCap, Quota>>
    ]_vars

\* a process that has just loaded the record {44, 3, 47}
C6_Witness ==
    /\ pc = "loaded"
    /\ counters = <<WrapCap - 1, 3, WrapCap + 2>>
    /\ file = Status(WrapCap - 1, 3, WrapCap + 2)

\* C7 (as claimed): started on an absent or malformed status file, the script
\* loads {0, 0, 0} and enters its loop.
C7_LoadNeverFails ==
    [][(pc \in Stopped /\ file.content \in {"absent"} \cup NotJson \cup NoCounters) =>
          pc' = "loaded" /\ counters' = <<0, 0, 0>>
    ]_vars

Rank ==
    3 * (Timeout - elapsed)
      + (IF pc = "wait_test" THEN 2 ELSE IF pc = "wait_poll" THEN 1 ELSE 0)

\* C9: the watcher always has a step to take and every step brings its end
\* nearer; it ends with exactly one of Confirmed, Reverted, TimedOut; Confirmed
\* only on a success receipt, Reverted only on a failure receipt, a failure
\* receipt that a poll gets yields Reverted, and without any receipt it ends
\* with TimedOut, and only once the timeout has passed.
C9_WatcherOutcome ==
    [][/\ pc \in Watching => ENABLED wait_for_confirmation
       /\ (pc \in Watching /\ pc' \in Watching /\ pc' # pc) => Rank' < Rank /\ Rank' >= 0
       /\ (pc \in Watching /\ pc' \notin Watching /\ pc' # "killed") =>
            /\ pc' = "ret"
            /\ result = "none"
            /\ result' \in {"Confirmed", "Reverted", "TimedOut"}
            /\ result' = "Confirmed" => receipt.found /\ receipt.status = 1
            /\ result' = "Reverted" => receipt.found /\ receipt.status = 0
            /\ result' = "TimedOut" => pc = "wait_test" /\ elapsed >= Timeout
            /\ ~receipt.found => result' = "TimedOut"
            /\ (pc = "wait_poll" /\ receipt.found /\ receipt.status = 0) => result' = "Reverted"
    ]_vars

\* the timeout passed without any receipt
C9_Witness ==
    /\ pc = "ret"
    /\ result = "TimedOut"
    /\ ~receipt.found
    /\ elapsed = Timeout

\* C10: when the balance check refuses an attempt, nothing was fetched, signed
\* or sent for it and counters and file stay as they are; the script cannot
\* leave its loop while a kind is refused: it sleeps, starts the next cycle and
\* attempts that kind again.
C10_RefusedIsRetried ==
    [][ScriptStep =>
          /\ (pc = "gate" /\ result' = "refused") =>
               pc' = "ret" /\ tx' = NoTx /\ counters' = counters /\ file' = file
          /\ (pc = "ret" /\ result = "refused") =>
               /\ tx = NoTx /\ counters' = counters /\ file' = file
               /\ pc' = AfterAttempt(kind)
               /\ kind \in refused'
          /\ refused # {} => pc' \notin {"remove", "done"}
          /\ (refused # {} /\ pc = "end_if") => pc' = "sleep"
          /\ pc = "sleep" => pc' = "loop"
          /\ (refused # {} /\ pc = "loop") => pc' = "wrap_if"
          /\ (pc = "wrap_if" /\ "wrap" \in refused) => pc' = "gate" /\ kind' = "wrap"
          /\ (pc = "unwrap_if" /\ "unwrap" \in refused) => pc' = "gate" /\ kind' = "unwrap"
    ]_vars

\* the cycle after a refused wrap has come to the wrap branch
C10_Witness ==
    /\ pc = "wrap_if"
    /\ "wrap" \in refused
    /\ file.content = "record"

\* C11 (as claimed): a failure of the nonce lookup, of the gas estimation for
\* the payload, of signing or of the broadcast is a soft error: the attempt
\* returns failure, counters and file stay as they are, the process runs on.
C11_SubmitFailureIsSoft ==
    [][(ScriptStep /\ pc \in {"nonce", "estimate", "sign", "send"}) =>
          /\ pc' # "crashed"
          /\ counters' = counters
          /\ file' = file
          /\ pc' = "ret" => result' = "submit_error"
    ]_vars

\* what a process started now would load from the file
Persisted == load_transaction_status(file)

\* C12 (as claimed): in every state of the running script total_tx exceeds
\* the persisted total (an unreadable or absent file read as 0) by at most 1,
\* and while an attempt is checked or submitted the persisted counters equal
\* the counters in memory.
C12_DurableLag ==
    pc \notin Stopped =>
        /\ total_tx - Persisted.total_tx <= 1
        /\ pc \in {"gate", "nonce", "estimate", "sign", "send"} =>
             <<Persisted.wrap_counter, Persisted.unwrap_counter, Persisted.total_tx>> = counters

\* C13 (as claimed): whenever the process is killed, a restart loads either
\* the counters the process had or those it had before its last increment.
C13_KillLeavesProgress ==
    [][(pc \notin Stopped /\ pc' = "killed") =>
          LET left == load_transaction_status(file') IN
            /\ left.raised = "none"
            /\ left.total_tx \in {total_tx, total_tx - 1}
            /\ left.wrap_counter \in {wrap_counter, wrap_counter - 1}
            /\ left.unwrap_counter \in {unwrap_counter, unwrap_counter - 1}
    ]_vars

\* a step the script itself takes: every statement moves its position, the
\* chain mining a transaction does not
ProgramStep == ScriptStep /\ pc' # pc

\* C15: there is no retry cap. An attempt that fails leaves every counter as
\* it is and the loop goes on; a counter moves only when an attempt of its own
\* kind is confirmed; a kind below its cap is attempted again in every cycle,
\* whatever happened to it or to the other kind before; and while a kind is
\* below its cap the script does not leave the loop by itself.
C15_NoRetryCap ==
    [][ProgramStep =>
          /\ (pc = "ret" /\ result # "Confirmed") =>
                counters' = counters /\ pc' = AfterAttempt(kind)
          /\ wrap_counter' # wrap_counter =>
                pc = "ret" /\ kind = "wrap" /\ result = "Confirmed"
          /\ unwrap_counter' # unwrap_counter =>
                pc = "ret" /\ kind = "unwrap" /\ result = "Confirmed"
          /\ (pc = "wrap_if" /\ wrap_counter < WrapCap) =>
                pc' = "gate" /\ kind' = "wrap"
          /\ (pc = "unwrap_if" /\ unwrap_counter < UnwrapCap) =>
                pc' = "gate" /\ kind' = "unwrap"
          /\ (wrap_counter < WrapCap \/ unwrap_counter < UnwrapCap) =>
                /\ pc' \notin {"remove", "done"}
                /\ pc = "end_if" => pc' = "sleep"
                /\ pc = "sleep" => pc' = "loop"
                /\ pc \in {"loaded", "loop"} => pc' = "wrap_if"
    ]_vars

\* wrap has never succeeded and is tried once more, unwrap is at its cap
C15_Witness ==
    /\ pc = "gate" /\ kind = "wrap"
    /\ wrap_counter = 0 /\ unwrap_counter = UnwrapCap

\* C16: in a cycle the wrap attempt is over (returned, counted and saved)
\* before the unwrap test is made; the unwrap test is made on the counters as
\* they are then; and the script sleeps only after the unwrap branch.
C16_WrapThenUnwrap ==
    [][ProgramStep =>
          /\ pc' = "unwrap_if" /\ pc # "unwrap_if" =>
                \/ pc = "wrap_if" /\ ~(wrap_counter < WrapCap /\ total_tx < Quota)
                \/ pc = "ret" /\ kind = "wrap" /\ result # "Confirmed"
                \/ pc = "save_write" /\ kind = "wrap"
                     /\ file' = Status(wrap_counter, unwrap_counter, total_tx)
          /\ (kind = "wrap" /\ pc \in {"ret", "save_write"} /\ pc' # "save_open") =>
                pc' = "unwrap_if" /\ tx' = NoTx /\ result' = "none"
          /\ pc = "unwrap_if" =>
                /\ counters' = counters
                /\ IF unwrap_counter < UnwrapCap /\ total_tx < Quota
                   THEN pc' = "gate" /\ kind' = "unwrap"
                   ELSE pc' = "end_if"
          /\ pc' = "end_if" /\ pc # "end_if" => pc = "unwrap_if" \/ kind = "unwrap"
          /\ pc' = "sleep" /\ pc # "sleep" => pc = "end_if"
    ]_vars

\* the wrap of this cycle was confirmed and saved, the unwrap starts
C16_Witness ==
    /\ pc = "gate" /\ kind = "unwrap"
    /\ counters = <<1, 0, 1>> /\ file = Status(1, 0, 1)

\* C19: a counter is raised only by one, only for the kind of the transaction
\* this process broadcast and whose receipt has success status, and the
\* transaction is forgotten in the same step, so that it is counted once; an
\* attempt whose watcher timed out leaves the counters as they are, whether
\* the transaction has succeeded on chain or not.
C19_NoOverCount ==
    [][ProgramStep =>
          /\ counters' # counters =>
                /\ pc = "ret" /\ result = "Confirmed"
                /\ tx.sent /\ receipt.found /\ receipt.status = 1
                /\ wrap_counter' = wrap_counter + (IF kind = "wrap" THEN 1 ELSE 0)
                /\ unwrap_counter' = unwrap_counter + (IF kind = "unwrap" THEN 1 ELSE 0)
                /\ tx' = NoTx /\ receipt' = NoReceipt
          /\ (pc = "ret" /\ result = "TimedOut") =>
                counters' = counters /\ tx' = NoTx /\ receipt' = NoReceipt
    ]_vars

\* the watcher timed out on a transaction that has succeeded on chain
C19_Witness ==
    /\ pc = "ret" /\ result = "TimedOut"
    /\ tx.sent /\ receipt.found /\ receipt.status = 1

RequiredFee(gas_estimate) ==
    [gwei |-> (gas_estimate * 25) \div 1000,
     wei |-> ((gas_estimate * 25) % 1000) * 1000000]

\* balance a is at least b, both in gwei and wei
AtLeast(a, b) == a.gwei > b.gwei \/ (a.gwei = b.gwei /\ a.wei >= b.wei)

\* C17 (as claimed): for unwrap the gate returns true exactly when the
\* wrapped-token balance is at least the amount, whatever the native balance
\* and whatever the gas estimation answers.
C17_UnwrapGateIsTokenBalance ==
    (gate_check.phase = "returned" /\ ~gate_check.is_wrap /\ gate_check.weth_answer.ok) =>
        (gate_check.answer <=>
            AtLeast(gate_check.weth_answer.value, [gwei |-> 400000000, wei |-> 0]))

\* C17 (amended): for unwrap the gate returns true exactly when the gas
\* estimation of the withdraw call succeeds, the balanceOf query answers and
\* the wrapped-token balance is at least the amount; the native balance and
\* the size of the gas estimate play no part.
C17_UnwrapGate ==
    (gate_check.phase = "returned" /\ ~gate_check.is_wrap) =>
        (gate_check.answer <=>
            /\ gate_check.gas_answer.ok
            /\ gate_check.weth_answer.ok
            /\ AtLeast(gate_check.weth_answer.value, [gwei |-> 400000000, wei |-> 0]))

\* unwrap is let through with enough of the token and no native balance at all
C17_Witness ==
    /\ gate_check.phase = "returned" /\ ~gate_check.is_wrap /\ gate_check.answer
    /\ gate_check.eth_answer.ok /\ gate_check.eth_answer.value = [gwei |-> 0, wei |-> 0]

\* C18: for wrap the gate returns true exactly when the gas estimation
\* succeeds, the balance query answers and the native balance is at least
\* 0.025 gwei times the gas estimate; the amount wrapped is not part of the
\* requirement; a call that raised gives false.
C18_WrapGate ==
    (gate_check.phase = "returned" /\ gate_check.is_wrap) =>
        (gate_check.answer <=>
            /\ gate_check.gas_answer.ok
            /\ gate_check.eth_answer.ok
            /\ AtLeast(gate_check.eth_answer.value, RequiredFee(gate_check.gas_answer.gas)))

\* wrap is let through with a native balance that covers the fee and nothing more
C18_Witness ==
    /\ gate_check.phase = "returned" /\ gate_check.is_wrap /\ gate_check.answer
    /\ gate_check.eth_answer.value = RequiredFee(gate_check.gas_answer.gas)
    /\ ~AtLeast(gate_check.eth_answer.value, [gwei |-> 400000000, wei |-> 0])

\* an attempt of kind k has just been confirmed
ConfirmedNow(k) == pc = "ret" /\ kind = k /\ result = "Confirmed"

\* the run is over: both caps and the quota reached, the file deleted
RunComplete ==
    pc = "done" /\ counters = <<WrapCap, UnwrapCap, Quota>> /\ file = Absent

\* C14: if, for each kind, again and again either the kind is at its cap or
\* an attempt of it is confirmed, then the run reaches wrap_counter = 45,
\* unwrap_counter = 45, total_tx = 90, deletes the status file and ends.
C14_RunsToCompletion ==
    ( /\ []<>(wrap_counter = WrapCap \/ ConfirmedNow("wrap"))
      /\ []<>(unwrap_counter = UnwrapCap \/ ConfirmedNow("unwrap")) )
    => <>RunComplete

\* the last attempt of the run has just been confirmed
C14_Witness ==
    /\ ConfirmedNow("unwrap")
    /\ counters = <<WrapCap, UnwrapCap - 1, Quota - 1>>
    /\ file = Status(WrapCap, UnwrapCap - 1, Quota - 1)

====
